---- MODULE Spec2Model ----
(***************************************************************************)
(* A model of src/hallo.py: the exception-handling block (section 8), the  *)
(* loop that follows it (section 9), the student roster (section 10), the  *)
(* calculator function (section 11) and the fibonacci function (section 3).*)
(*                                                                         *)
(* Python values are tagged records, so that an int, a str and a float are *)
(* never equal: [int |-> i], [str |-> s], [num |-> p, den |-> q] (a float  *)
(* quotient of two ints, kept as the reduced fraction), [none |-> TRUE].   *)
(* The outcome of evaluating an expression or a call is a record           *)
(* [raised, msg, ret]: raised = "none" when it returns ret, else the       *)
(* class of the exception raised and msg its str().                        *)
(***************************************************************************)
EXTENDS Integers, Sequences, FiniteSets, TLC

VARIABLES
    pc,         \* position of the script: "try", "except", "finally", "sec9",
                \* "sec10", "roster", "terminated"
    exc,        \* the exception propagating out of the try block ("none" if none)
    e,          \* the exception bound by `except ZeroDivisionError as e` (its str())
    console,    \* the lines printed so far, from section 8 on
    students,   \* the global list `students` (empty until line 147 binds it)
    calls,      \* history: the arguments of the add_student calls made, in order
    displays,   \* history: the number of display_students calls made
    lastOut,    \* history: the lines the latest display_students call printed
    shownAt,    \* history: Len(calls) at the latest display_students call
    ca, cb, cop,\* calculator: the arguments of the call
    cpc, cres,  \* calculator: "call"/"done"/"idle", and the call's outcome
    fn,         \* fibonacci: the argument n
    seq,        \* fibonacci: the local list seq
    fpc, fret   \* fibonacci: "enter"/"loop"/"done"/"idle", and the returned list

vars == <<pc, exc, e, console, students, calls, displays, lastOut, shownAt,
          ca, cb, cop, cpc, cres, fn, seq, fpc, fret>>

scriptVars == <<pc, exc, e, console, students, calls, displays, lastOut, shownAt>>
calcVars == <<ca, cb, cop, cpc, cres>>
fibVars == <<fn, seq, fpc, fret>>

----------------------------------------------------------------------------
(* Bounds *)

MaxAdds == 3
MaxDisplays == 2
CalcMaxAbs == 2
FibMaxN == 14
FibMaxNeg == 2

----------------------------------------------------------------------------
(* Python values and outcomes *)

IntVal(i) == [int |-> i]
StrVal(s) == [str |-> s]
NoneVal == [none |-> TRUE]

Abs(i) == IF i < 0 THEN -i ELSE i

RECURSIVE Gcd(_, _)
Gcd(a, b) == IF b = 0 THEN a ELSE Gcd(b, a % b)

\* the float a / b (b # 0), as the reduced fraction with a positive denominator
FloatVal(a, b) ==
    LET g == Gcd(Abs(a), Abs(b))
        s == IF b < 0 THEN -1 ELSE 1
    IN  [num |-> s * (a \div g), den |-> s * (b \div g)]

Return(v) == [raised |-> "none", msg |-> "", ret |-> v]
Raise(cls, m) == [raised |-> cls, msg |-> m, ret |-> NoneVal]

\* a / b on ints: raises ZeroDivisionError("division by zero") when b = 0
TrueDiv(a, b) ==
    IF b = 0 THEN Raise("ZeroDivisionError", "division by zero")
    ELSE Return(FloatVal(a, b))

\* the classes an exception of class cls is an instance of
Bases(cls) ==
    IF cls = "ZeroDivisionError"
    THEN {"ZeroDivisionError", "ArithmeticError", "Exception", "BaseException"}
    ELSE {cls, "Exception", "BaseException"}

----------------------------------------------------------------------------
(* Section 1: the variable the try block divides *)

num1 == 20

----------------------------------------------------------------------------
(* Section 8: try / except ZeroDivisionError / finally *)

\* a mutant: the handler names another exception class
ExceptClauseValueError == "ValueError"

\* the class the except clause names
ExceptClause == "ZeroDivisionError"

\* try: result = num1 / 0
TryBody ==
    /\ pc = "try"
    /\ LET r == TrueDiv(num1, 0)
       IN  IF r.raised = "none"
           THEN /\ pc' = "finally"
                /\ UNCHANGED <<exc, e>>
           ELSE IF ExceptClause \in Bases(r.raised)
           THEN /\ pc' = "except"
                /\ e' = r.msg
                /\ exc' = "none"
           ELSE /\ pc' = "finally"
                /\ exc' = r.raised
                /\ e' = e
    /\ UNCHANGED <<console, students, calls, displays, lastOut, shownAt>>
    /\ UNCHANGED <<calcVars, fibVars>>

\* except ZeroDivisionError as e: print("Error:", e)
ExceptBody ==
    /\ pc = "except"
    /\ console' = Append(console, "Error: " \o e)
    /\ pc' = "finally"
    /\ UNCHANGED <<exc, e, students, calls, displays, lastOut, shownAt>>
    /\ UNCHANGED <<calcVars, fibVars>>

\* finally: print("Division attempt finished."); an exception no handler took
\* propagates after it and ends the script
FinallyBody ==
    /\ pc = "finally"
    /\ console' = Append(console, "Division attempt finished.")
    /\ pc' = IF exc = "none" THEN "sec9" ELSE "terminated"
    /\ UNCHANGED <<exc, e, students, calls, displays, lastOut, shownAt>>
    /\ UNCHANGED <<calcVars, fibVars>>

----------------------------------------------------------------------------
(* Section 9: for i in range(1, 20) with continue and break *)

RECURSIVE OddLoop(_, _)
OddLoop(i, out) ==
    IF i >= 20 THEN out
    ELSE IF i % 2 = 0 THEN OddLoop(i + 1, out)
    ELSE IF i > 15 THEN out
    ELSE OddLoop(i + 1, Append(out, "Odd Number: " \o ToString(i)))

Section9 ==
    /\ pc = "sec9"
    /\ console' = OddLoop(1, console)
    /\ pc' = "sec10"
    /\ UNCHANGED <<exc, e, students, calls, displays, lastOut, shownAt>>
    /\ UNCHANGED <<calcVars, fibVars>>

----------------------------------------------------------------------------
(* Section 5: Person and Student *)

\* Person.__init__
Person_init(name, age) == [name |-> name, age |-> age]

\* Student.__init__: super().__init__(name, age), then self.student_id
Student_init(name, age, student_id) ==
    Person_init(name, age) @@ [student_id |-> student_id]

\* Person.display: the line it prints
Person_display(self) ==
    <<"Name: " \o self.name \o ", Age: " \o ToString(self.age)>>

\* a mutant: the subclass prints its own line before the parent's
Student_display_IdFirst(self) ==
    <<"Student ID: " \o self.student_id>> \o Person_display(self)

\* Student.display: super().display(), then the student-id line
Student_display(self) ==
    Person_display(self) \o <<"Student ID: " \o self.student_id>>

----------------------------------------------------------------------------
(* Section 10: the roster *)

\* the arguments the add_student calls are drawn from: those of the script's
\* three calls, an empty name with a negative age and an id already used, and
\* another name under an id already used
StudentArgs ==
    { [name |-> "Ravi",  age |-> 20, student_id |-> "BCA102"],
      [name |-> "Meena", age |-> 22, student_id |-> "BCA103"],
      [name |-> "Kiran", age |-> 21, student_id |-> "BCA104"],
      [name |-> "",      age |-> -1, student_id |-> "BCA102"],
      [name |-> "Asha",  age |-> 0,  student_id |-> "BCA103"] }

\* a mutant: a student whose id is already in the roster is not added
add_student_UniqueId(ss, name, age, student_id) ==
    IF \E i \in 1..Len(ss) : ss[i].student_id = student_id
    THEN ss
    ELSE Append(ss, Student_init(name, age, student_id))

\* a mutant: a negative age or an empty name is rejected
add_student_Validating(ss, name, age, student_id) ==
    IF age < 0 \/ name = ""
    THEN ss
    ELSE Append(ss, Student_init(name, age, student_id))

\* a mutant: the new record goes to the front of the list
add_student_AtFront(ss, name, age, student_id) ==
    <<Student_init(name, age, student_id)>> \o ss

\* add_student: the list `students` after the call, given it before
add_student(ss, name, age, student_id) ==
    Append(ss, Student_init(name, age, student_id))

RECURSIVE display_students_Reversed(_)
\* a mutant: the list is walked from its end
display_students_Reversed(ss) ==
    IF ss = <<>> THEN <<>>
    ELSE display_students_Reversed(Tail(ss)) \o Student_display(Head(ss))

RECURSIVE display_students_Loop(_)
display_students_Loop(ss) ==
    IF ss = <<>> THEN <<>>
    ELSE Student_display(Head(ss)) \o display_students_Loop(Tail(ss))

\* a mutant: an empty roster prints a placeholder line
display_students_Placeholder(ss) ==
    IF ss = <<>> THEN <<"No students">> ELSE display_students_Loop(ss)

\* display_students: the lines it prints, for s in students: s.display()
display_students(ss) == display_students_Loop(ss)

\* students = []
Section10 ==
    /\ pc = "sec10"
    /\ students' = <<>>
    /\ pc' = "roster"
    /\ UNCHANGED <<exc, e, console, calls, displays, lastOut, shownAt>>
    /\ UNCHANGED <<calcVars, fibVars>>

\* a call add_student(name, age, student_id)
AddStudentCall ==
    /\ pc = "roster"
    /\ Len(calls) < MaxAdds
    /\ \E a \in StudentArgs :
          /\ students' = add_student(students, a.name, a.age, a.student_id)
          /\ calls' = Append(calls, a)
    /\ UNCHANGED <<pc, exc, e, console, displays, lastOut, shownAt>>
    /\ UNCHANGED <<calcVars, fibVars>>

\* a mutant: the loop empties the list as it prints it
DisplayStudentsCall_Draining ==
    /\ pc = "roster"
    /\ displays < MaxDisplays
    /\ console' = console \o display_students(students)
    /\ lastOut' = display_students(students)
    /\ displays' = displays + 1
    /\ shownAt' = Len(calls)
    /\ students' = <<>>
    /\ UNCHANGED <<pc, exc, e, calls>>
    /\ UNCHANGED <<calcVars, fibVars>>

\* a call display_students()
DisplayStudentsCall ==
    /\ pc = "roster"
    /\ displays < MaxDisplays
    /\ console' = console \o display_students(students)
    /\ lastOut' = display_students(students)
    /\ displays' = displays + 1
    /\ shownAt' = Len(calls)
    /\ UNCHANGED <<pc, exc, e, students, calls>>
    /\ UNCHANGED <<calcVars, fibVars>>

----------------------------------------------------------------------------
(* The script from the try block on *)

NoOutcome == Return(NoneVal)

CalcIdle ==
    /\ ca = 0 /\ cb = 0 /\ cop = "" /\ cpc = "idle" /\ cres = NoOutcome

FibIdle ==
    /\ fn = 0 /\ seq = <<>> /\ fpc = "idle" /\ fret = <<>>

ScriptIdle ==
    /\ pc = "idle" /\ exc = "none" /\ e = "" /\ console = <<>>
    /\ students = <<>> /\ calls = <<>> /\ displays = 0
    /\ lastOut = <<>> /\ shownAt = 0

Init ==
    /\ pc = "try"
    /\ exc = "none"
    /\ e = ""
    /\ console = <<>>
    /\ students = <<>>
    /\ calls = <<>>
    /\ displays = 0
    /\ lastOut = <<>>
    /\ shownAt = 0
    /\ CalcIdle
    /\ FibIdle

Next ==
    \/ TryBody
    \/ ExceptBody
    \/ FinallyBody
    \/ Section9
    \/ Section10
    \/ AddStudentCall
    \/ DisplayStudentsCall

Spec == Init /\ [][Next]_vars

----------------------------------------------------------------------------
(* Section 11: calculator *)

\* a mutant: the "/" branch divides without testing b
calculator_Unguarded(a, b, op) ==
    IF op = "+" THEN Return(IntVal(a + b))
    ELSE IF op = "-" THEN Return(IntVal(a - b))
    ELSE IF op = "*" THEN Return(IntVal(a * b))
    ELSE IF op = "/" THEN TrueDiv(a, b)
    ELSE Return(StrVal("Invalid operator"))

\* calculator(a, b, op): the outcome of the call
calculator(a, b, op) ==
    IF op = "+" THEN Return(IntVal(a + b))
    ELSE IF op = "-" THEN Return(IntVal(a - b))
    ELSE IF op = "*" THEN Return(IntVal(a * b))
    ELSE IF op = "/"
         THEN IF b # 0 THEN TrueDiv(a, b) ELSE Return(StrVal("Division by zero"))
    ELSE Return(StrVal("Invalid operator"))

\* the integers the calls are drawn from: a range around 0, and the script's
\* own arguments 10 and 5
CalcInts == (-CalcMaxAbs .. CalcMaxAbs) \cup {5, 10}

\* the operators the calls are drawn from: the four the function knows, and
\* others
CalcOps == {"+", "-", "*", "/", "%", "**", ""}

InitCalc ==
    /\ ScriptIdle
    /\ FibIdle
    /\ ca \in CalcInts
    /\ cb \in CalcInts
    /\ cop \in CalcOps
    /\ cpc = "call"
    /\ cres = NoOutcome

\* a call calculator(ca, cb, cop)
CalculatorCall ==
    /\ cpc = "call"
    /\ cres' = calculator(ca, cb, cop)
    /\ cpc' = "done"
    /\ UNCHANGED <<ca, cb, cop>>
    /\ UNCHANGED <<scriptVars, fibVars>>

NextCalc == CalculatorCall

SpecCalc == InitCalc /\ [][NextCalc]_vars

----------------------------------------------------------------------------
(* Section 3: fibonacci *)

\* a mutant: the loop runs once more
fibonacci_while_OffByOne(s, n) == Len(s) <= n

\* while len(seq) < n
fibonacci_while(s, n) == Len(s) < n

InitFib ==
    /\ ScriptIdle
    /\ CalcIdle
    /\ fn \in (-FibMaxNeg) .. FibMaxN
    /\ seq = <<>>
    /\ fpc = "enter"
    /\ fret = <<>>

\* seq = [0, 1]
FibEnter ==
    /\ fpc = "enter"
    /\ seq' = <<0, 1>>
    /\ fpc' = "loop"
    /\ UNCHANGED <<fn, fret>>
    /\ UNCHANGED <<scriptVars, calcVars>>

\* one pass of the loop: seq.append(seq[-1] + seq[-2])
FibLoop ==
    /\ fpc = "loop"
    /\ fibonacci_while(seq, fn)
    /\ seq' = Append(seq, seq[Len(seq)] + seq[Len(seq) - 1])
    /\ UNCHANGED <<fn, fpc, fret>>
    /\ UNCHANGED <<scriptVars, calcVars>>

\* the loop's test fails: return seq
FibReturn ==
    /\ fpc = "loop"
    /\ ~fibonacci_while(seq, fn)
    /\ fret' = seq
    /\ fpc' = "done"
    /\ UNCHANGED <<fn, seq>>
    /\ UNCHANGED <<scriptVars, calcVars>>

NextFib ==
    \/ FibEnter
    \/ FibLoop
    \/ FibReturn

\* the interpreter runs the call without pause: a step that can be taken is taken
SpecFib == InitFib /\ [][NextFib]_vars /\ WF_vars(NextFib)

----------------------------------------------------------------------------
(* Properties *)

IsPrefix(s, t) == Len(s) <= Len(t) /\ SubSeq(t, 1, Len(s)) = s

\* the lines a step added to the console
Emitted == SubSeq(console', Len(console) + 1, Len(console'))

\* a step that is a call of display_students
IsDisplay == displays' = displays + 1

\* a step that is a call of add_student
IsAdd == Len(calls') = Len(calls) + 1

Ravi == [name |-> "Ravi", age |-> 20, student_id |-> "BCA102"]
Meena == [name |-> "Meena", age |-> 22, student_id |-> "BCA103"]
Kiran == [name |-> "Kiran", age |-> 21, student_id |-> "BCA104"]

\* C1: after N calls of add_student from the empty roster the list students
\* holds N records; as every call adds one to the number of calls made, each
\* call lengthens the list by exactly 1.
C1_LengthIsNumberOfAdds == Len(students) = Len(calls)

C1_Witness == Len(calls) = 3 /\ Len(students) = 3

\* C2: the latest display_students call printed one entry per add_student call
\* made before it, the i-th entry being that of the record the i-th call
\* created: nothing reordered, skipped or deduplicated.
C2_DisplayInInsertionOrder ==
    displays > 0 =>
        /\ Len(lastOut) = 2 * shownAt
        /\ \A i \in 1..shownAt :
              SubSeq(lastOut, 2 * i - 1, 2 * i) =
                  << "Name: " \o calls[i].name \o ", Age: " \o ToString(calls[i].age),
                     "Student ID: " \o calls[i].student_id >>

\* a display of three records, the first and the third equal, the second not
C2_Witness ==
    /\ displays > 0
    /\ shownAt = 3
    /\ calls[1] = calls[3]
    /\ calls[1] # calls[2]
    /\ Len(lastOut) = 6

\* C3: a display_students call that follows another with no add_student call
\* in between prints the same lines in the same order.
C3_DisplayTwiceSameOutput ==
    [][(IsDisplay /\ displays > 0 /\ shownAt = Len(calls))
          => (Emitted = lastOut /\ lastOut' = lastOut)]_vars

\* two displays in a row of a roster of at least two records
C3_Witness ==
    /\ displays >= 2
    /\ shownAt = Len(calls)
    /\ Len(lastOut) >= 4
    /\ Len(console) >= 2 * Len(lastOut)
    /\ SubSeq(console, Len(console) - 2 * Len(lastOut) + 1, Len(console))
           = lastOut \o lastOut

\* C4: display_students on the empty roster, no add_student call made before
\* it, prints nothing and raises nothing: the script goes on.
C4_DisplayEmptyRoster ==
    [][(IsDisplay /\ Len(calls) = 0)
          => /\ Emitted = <<>>
             /\ lastOut' = <<>>
             /\ pc' = "roster"
             /\ exc' = "none"]_vars

C4_Witness ==
    /\ displays > 0
    /\ shownAt = 0
    /\ Len(calls) = 0
    /\ pc = "roster"

\* C5: the division by zero of the try block is caught: control goes to the
\* handler, which prints the message; no exception propagates; the finally
\* branch runs and prints; and the script goes on with the statement after the
\* block (section 9) and is not terminated.
C5_DivisionByZeroCaught ==
    [][ /\ (pc = "try" =>
              pc' = "except" /\ e' = "division by zero" /\ exc' = "none")
        /\ (pc = "except" =>
              /\ pc' = "finally"
              /\ Emitted = <<"Error: division by zero">>
              /\ exc' = "none")
        /\ (pc = "finally" =>
              /\ pc' = "sec9"
              /\ Emitted = <<"Division attempt finished.">>)
        /\ pc' # "terminated" ]_vars

C5_Witness ==
    /\ pc = "sec9"
    /\ exc = "none"
    /\ console = <<"Error: division by zero", "Division attempt finished.">>

\* C6: every add_student call, whatever its name, age and student_id, appends
\* one record with these values to the end of the roster and raises nothing.
C6_AddNeverFails ==
    [][IsAdd =>
          LET a == calls'[Len(calls')]
          IN  /\ students' = Append(students,
                     [name |-> a.name, age |-> a.age, student_id |-> a.student_id])
              /\ pc' = "roster"
              /\ exc' = "none"]_vars

\* the latest call had an empty name, a negative age and an id already in the
\* roster, and its record is the last of the roster
C6_Witness ==
    /\ Len(calls) >= 2
    /\ LET a == calls[Len(calls)]
       IN  /\ a.name = ""
           /\ a.age < 0
           /\ \E i \in 1..(Len(calls) - 1) : students[i].student_id = a.student_id
           /\ Len(students) = Len(calls)
           /\ students[Len(students)] = a

\* C7: display_students prints, for each record of the roster in turn, the
\* name-and-age line and right after it the student-id line of that same
\* record; after the script's three add_student calls it prints exactly the
\* three entries of Ravi, Meena and Kiran, in that order.
C7_EachEntryItsOwnData ==
    [][IsDisplay =>
          /\ Len(Emitted) = 2 * Len(students)
          /\ \A i \in 1..Len(students) :
                /\ Emitted[2 * i - 1] =
                      "Name: " \o students[i].name \o ", Age: "
                          \o ToString(students[i].age)
                /\ Emitted[2 * i] = "Student ID: " \o students[i].student_id
          /\ (calls = <<Ravi, Meena, Kiran>> =>
                Emitted = << "Name: Ravi, Age: 20", "Student ID: BCA102",
                             "Name: Meena, Age: 22", "Student ID: BCA103",
                             "Name: Kiran, Age: 21", "Student ID: BCA104" >>)]_vars

C7_Witness ==
    /\ calls = <<Ravi, Meena, Kiran>>
    /\ displays > 0
    /\ shownAt = 3
    /\ lastOut = << "Name: Ravi, Age: 20", "Student ID: BCA102",
                    "Name: Meena, Age: 22", "Student ID: BCA103",
                    "Name: Kiran, Age: 21", "Student ID: BCA104" >>

\* C8: no step removes or changes a record: the roster before a step is a
\* prefix of the roster after it, and a display_students call leaves the
\* roster as it was.
C8_RecordsNeverChange ==
    [][ /\ IsPrefix(students, students')
        /\ (IsDisplay => students' = students) ]_vars

\* records were added before and after a display
C8_Witness ==
    /\ displays >= 1
    /\ shownAt >= 1
    /\ shownAt < Len(students)

FibResultOk ==
    fpc = "done" =>
        /\ Len(fret) >= 2
        /\ fret[1] = 0
        /\ fret[2] = 1
        /\ \A i \in 3..Len(fret) : fret[i] = fret[i - 1] + fret[i - 2]
        /\ (fn >= 2 => Len(fret) = fn)
        /\ (fn < 2 => Len(fret) = 2)

\* C10: fibonacci(n) terminates for every n, and the list it returns starts
\* 0, 1, has each later element the sum of the two before it, and has n
\* elements when n >= 2 but 2 elements when n < 2.
C10_FibonacciTerminatesWithShape == []FibResultOk /\ <>(fpc = "done")

C10_Witness ==
    /\ fpc = "done"
    /\ fn = 10
    /\ fret = <<0, 1, 1, 2, 3, 5, 8, 13, 21, 34>>

====
